---- MODULE Spec2Model ----
(***************************************************************************)
(* A model of package discrete's graph algorithms (graph.go): Tarjan,      *)
(* IsPath, Prim, Kruskal, Dominators and PostDominators, each run against  *)
(* an abstract Graph given by its node list and adjacency lists.           *)
(*                                                                         *)
(* One specification per entry point draws the call's arguments in Init    *)
(* and then runs the function:                                             *)
(*   SpecTarjan  Tarjan(graph)                                             *)
(*   SpecPath    IsPath(path, graph)                                       *)
(*   SpecMST     Prim(dstPrim, graph, Cost); Kruskal(dstKruskal, graph,    *)
(*               Cost), one loop iteration per step                        *)
(*   SpecDom     PostDominators(start, graph); Dominators(start, graph')   *)
(*               with graph' the reversed graph, one loop iteration per    *)
(*               step                                                      *)
(***************************************************************************)
EXTENDS Integers, Sequences, FiniteSets, TLC

\* Bounds of the model.
NumNodes == 3
MaxEdges == 3
MaxPath == 3
MaxWeight == 3

VARIABLES
    pc,               \* position of the running call
    nlist,            \* graph.NodeList()
    succs,            \* graph.Successors: node -> list of nodes
    preds,            \* graph.Predecessors: node -> list of nodes
    cost,             \* the Cost argument: edge -> weight
    start,            \* the start / end argument of (Post)Dominators
    path,             \* the path argument of IsPath
    sccs,             \* Tarjan's result
    pathOk,           \* IsPath's result
    dstPrim,          \* Prim's destination graph
    dstKruskal,       \* Kruskal's destination graph
    remainingNodes,   \* Prim: nodes not yet in the tree
    edgeWeights,      \* Prim / Kruskal: the weighted edges still to be read
    ds,               \* Kruskal: the disjoint set, node -> representative
    dominators,       \* (Post)Dominators: node -> set of nodes
    i,                \* (Post)Dominators: position in nlist of the inner loop
    somethingChanged, \* (Post)Dominators: the loop flag
    postResult        \* the map PostDominators returned

vars == <<pc, nlist, succs, preds, cost, start, path, sccs, pathOk, dstPrim,
          dstKruskal, remainingNodes, edgeWeights, ds, dominators, i,
          somethingChanged, postResult>>

----------------------------------------------------------------------------
\* Helpers over sequences and sets.

Range(s) == {s[k] : k \in DOMAIN s}

Min(a, b) == IF a < b THEN a ELSE b

Nodes == 1..NumNodes

\* A node id that is in no graph over Nodes.
NoNode == NumNodes + 1

\* All sequences of pairwise distinct elements of S, of length at most n.
DistinctSeqs(S, n) ==
    {s \in UNION {[1..k -> S] : k \in 0..Min(n, Cardinality(S))} :
        \A j \in DOMAIN s, k \in DOMAIN s : s[j] = s[k] => j = k}

\* All orders of the set S.
Perms(S) ==
    {s : s \in {t \in DistinctSeqs(S, Cardinality(S)) : Len(t) = Cardinality(S)}}

\* For each budget b, all adjacency lists over the nodes 1..n holding at
\* most b edges: each node's list names distinct nodes, in any order.
RECURSIVE AdjLists(_)
AdjLists(n) ==
    IF n = 0 THEN [b \in 0..MaxEdges |-> {<<>>}]
    ELSE LET prev == AdjLists(n - 1)
         IN [b \in 0..MaxEdges |->
                UNION {{Append(f, l) : f \in prev[b - Len(l)]}
                       : l \in DistinctSeqs(Nodes, b)}]

\* The directed graphs of the model, as successor lists.
Graphs == AdjLists(NumNodes)[MaxEdges]

NodeOrders == Perms(Nodes)

\* The edges (from, to) of adjacency lists read as successor lists.
EdgesOf(adj) ==
    {e \in (DOMAIN adj) \X (DOMAIN adj) : e[2] \in Range(adj[e[1]])}

\* The ascending list of a set of integers.
Ascending(S) ==
    [k \in 1..Cardinality(S) |->
        CHOOSE x \in S : Cardinality({y \in S : y < x}) = k - 1]

\* The other direction's adjacency lists: node -> the nodes listing it.
Transpose(adj) ==
    [n \in DOMAIN adj |-> Ascending({m \in DOMAIN adj : n \in Range(adj[m])})]

----------------------------------------------------------------------------
\* The Graph interface, read from the state.

NodeList == nlist

NodeExists(node) == node \in Range(nlist)

Successors(node) == IF node \in DOMAIN succs THEN succs[node] ELSE <<>>

Predecessors(node) == IF node \in DOMAIN preds THEN preds[node] ELSE <<>>

IsSuccessor(node, successor) == successor \in Range(Successors(node))

\* b can be reached from a along zero or more edges of the successor lists.
RECURSIVE ReachSet(_, _)
ReachSet(seen, adj) ==
    LET next == seen \cup {m \in DOMAIN adj : \E n \in seen : m \in Range(adj[n])}
    IN IF next = seen THEN seen ELSE ReachSet(next, adj)

Reaches(a, b) == b \in ReachSet({a}, succs)

----------------------------------------------------------------------------
\* Tarjan (graph.go 72-123).  The closure's captured variables travel in a
\* record: index, vStack, stackSet, lowlinks, indices.  A nil slice is <<>>.

TarjanStart ==
    [index |-> 0, vStack |-> <<>>, stackSet |-> {},
     lowlinks |-> <<>>, indices |-> <<>>]

\* The pop loop of strongconnect: pops down to and including node.
RECURSIVE PopScc(_, _, _)
PopScc(st, node, scc) ==
    LET v == st.vStack[Len(st.vStack)]
        st1 == [st EXCEPT !.vStack = SubSeq(@, 1, Len(@) - 1),
                          !.stackSet = @ \ {v}]
        scc1 == Append(scc, v)
    IN IF v = node THEN [st |-> st1, ret |-> scc1]
       ELSE PopScc(st1, node, scc1)

\* VisitedSucc without the test of stackSet (graph.go 96).
VisitedSuccAnywhere(st, node, succ) ==
    [st EXCEPT !.lowlinks[node] = Min(@, st.lowlinks[succ])]

\* graph.go 96-98: a successor already visited tightens the low-link only
\* if it is on the stack.
VisitedSucc(st, node, succ) ==
    IF succ \in st.stackSet
    THEN [st EXCEPT !.lowlinks[node] = Min(@, st.lowlinks[succ])]
    ELSE st

RECURSIVE strongconnect(_, _)
RECURSIVE ForSuccessors(_, _, _)

\* The loop over graph.Successors(node), from its k-th element on.
ForSuccessors(st, node, k) ==
    IF k > Len(Successors(node)) THEN st
    ELSE LET succ == Successors(node)[k]
             st1 == IF succ \notin DOMAIN st.indices
                    THEN LET r == strongconnect(st, succ).st
                         IN [r EXCEPT !.lowlinks[node] =
                                          Min(@, r.lowlinks[succ])]
                    ELSE VisitedSucc(st, node, succ)
         IN ForSuccessors(st1, node, k + 1)

strongconnect(st, node) ==
    LET st1 == [st EXCEPT !.indices = (node :> st.index) @@ @,
                          !.lowlinks = (node :> st.index) @@ @,
                          !.index = @ + 1,
                          !.vStack = Append(@, node),
                          !.stackSet = @ \cup {node}]
        st2 == ForSuccessors(st1, node, 1)
    IN IF st2.lowlinks[node] = st2.indices[node]
       THEN PopScc(st2, node, <<>>)
       ELSE [st |-> st2, ret |-> <<>>]

\* The driver loop over nodes, from its k-th element on.
RECURSIVE TarjanLoop(_, _, _)
TarjanLoop(st, k, out) ==
    IF k > Len(NodeList) THEN out
    ELSE LET n == NodeList[k]
         IN IF n \notin DOMAIN st.indices
            THEN LET r == strongconnect(st, n)
                 IN TarjanLoop(r.st, k + 1, Append(out, r.ret))
            ELSE TarjanLoop(st, k + 1, out)

Tarjan == TarjanLoop(TarjanStart, 1, <<>>)

----------------------------------------------------------------------------
\* IsPath (graph.go 128-142).

\* IsPathLoop stopping one pair early.
RECURSIVE IsPathLoopShort(_, _)
IsPathLoopShort(p, k) ==
    IF ~(k < Len(p) - 1) THEN TRUE
    ELSE IF ~IsSuccessor(p[k], p[k + 1]) THEN FALSE
    ELSE IsPathLoopShort(p, k + 1)

\* graph.go 135-141: the loop over consecutive pairs, from the k-th on.
RECURSIVE IsPathLoop(_, _)
IsPathLoop(p, k) ==
    IF ~(k < Len(p)) THEN TRUE
    ELSE IF ~IsSuccessor(p[k], p[k + 1]) THEN FALSE
    ELSE IsPathLoop(p, k + 1)

IsPath(p) ==
    IF Len(p) = 0 THEN TRUE
    ELSE IF Len(p) = 1 THEN NodeExists(p[1])
    ELSE IsPathLoop(p, 1)

----------------------------------------------------------------------------
\* The MutableGraph interface (graph.go 45-55), for a destination graph dst
\* that Prim or Kruskal has emptied and set undirected: an edge is the set
\* of its two ends, so the reciprocal edge is the same edge.

EmptyGraph == [nodes |-> {}, edges |-> {}, cost |-> <<>>, directed |-> TRUE]

SetDirected(dst, b) == [dst EXCEPT !.directed = b]

AddEdge(dst, node1, node2) ==
    [dst EXCEPT !.nodes = @ \cup {node1, node2},
                !.edges = @ \cup {{node1, node2}}]

AddNode(dst, id, successors) ==
    [dst EXCEPT !.nodes = @ \cup {id} \cup Range(successors),
                !.edges = @ \cup {{id, s} : s \in Range(successors)}]

SetEdgeCost(dst, node1, node2, c) ==
    [dst EXCEPT !.cost = ({node1, node2} :> c) @@ @]

DstNodeExists(dst, node) == node \in dst.nodes

\* The sum of the costs recorded on the edges of dst.
RECURSIVE SumCost(_, _)
SumCost(E, c) ==
    IF E = {} THEN 0
    ELSE LET e == CHOOSE x \in E : TRUE
         IN c[e] + SumCost(E \ {e}, c)

TotalWeight(dst) == SumCost(dst.edges, dst.cost)

----------------------------------------------------------------------------
\* The disjoint set Kruskal uses: node -> the representative of its set.

MakeSet(d, node) == (node :> node) @@ d

Find(d, node) == d[node]

Union(d, s1, s2) == [n \in DOMAIN d |-> IF d[n] = s2 THEN s1 ELSE d[n]]

----------------------------------------------------------------------------
\* Kruskal and Prim (graph.go 149-234).

\* graph.EdgeList(): every edge once, node by node in successor order.
RECURSIVE EdgeListFrom(_)
EdgeListFrom(n) ==
    IF n > Len(succs) THEN <<>>
    ELSE [k \in 1..Len(succs[n]) |-> <<n, succs[n][k]>>] \o EdgeListFrom(n + 1)

EdgeList == EdgeListFrom(1)

Cost(node1, node2) == cost[<<node1, node2>>]

WeightedEdge(edge) == [Edge |-> edge, Weight |-> Cost(edge[1], edge[2])]

\* sort.Sort(edgeWeights) orders by Less (graph.go 346-348), the weight
\* alone, and is not a stable sort: the element it puts first is any one
\* that no other element is Less than.
SortedFirst(ews) == {e \in ews : \A f \in ews : ~(f.Weight < e.Weight)}

\* PrimCandidates without the test of the origin (graph.go 176).
PrimCandidatesAnyOrigin ==
    {WeightedEdge(EdgeList[k]) : k \in
        {j \in DOMAIN EdgeList : EdgeList[j][2] \in remainingNodes}}

\* Prim's scan of the edge list: origin in the tree, target outstanding.
PrimCandidates ==
    {WeightedEdge(EdgeList[k]) : k \in
        {j \in DOMAIN EdgeList :
            /\ DstNodeExists(dstPrim, EdgeList[j][1])
            /\ EdgeList[j][2] \in remainingNodes}}

\* The edge added to dst, with its cost (graph.go 184-189 and 226-231).
AddWeightedEdge(dst, e) ==
    SetEdgeCost(IF ~DstNodeExists(dst, e.Edge[1])
                THEN AddNode(dst, e.Edge[1], <<e.Edge[2]>>)
                ELSE AddEdge(dst, e.Edge[1], e.Edge[2]),
                e.Edge[1], e.Edge[2], e.Weight)

\* graph.go 150-172: the destination is emptied and set undirected; an
\* empty node list returns at once, else the first node seeds the tree.
PrimStart ==
    /\ pc = "kruskalDone"
    /\ IF Len(NodeList) = 0
       THEN /\ dstPrim' = SetDirected(EmptyGraph, FALSE)
            /\ remainingNodes' = {}
            /\ pc' = "done"
       ELSE /\ dstPrim' = AddNode(SetDirected(EmptyGraph, FALSE),
                                  NodeList[1], <<>>)
            /\ remainingNodes' = {NodeList[k] : k \in 2..Len(NodeList)}
            /\ pc' = "primLoop"
    /\ UNCHANGED <<nlist, succs, preds, cost, start, path, sccs, pathOk,
                   dstKruskal, edgeWeights, ds, dominators, i,
                   somethingChanged, postResult>>

\* graph.go 173-181: nodes are outstanding; the candidate edges are
\* collected and sorted.
PrimScan ==
    /\ pc = "primLoop"
    /\ Cardinality(remainingNodes) # 0
    /\ edgeWeights' = PrimCandidates
    /\ pc' = "primSelect"
    /\ UNCHANGED <<nlist, succs, preds, cost, start, path, sccs, pathOk,
                   dstPrim, dstKruskal, remainingNodes, ds, dominators, i,
                   somethingChanged, postResult>>

\* graph.go 182-191: edgeWeights[0] is read; with no candidate the index
\* is out of range and the call panics.
PrimSelect ==
    /\ pc = "primSelect"
    /\ IF edgeWeights = {}
       THEN /\ pc' = "primPanic"
            /\ UNCHANGED <<dstPrim, remainingNodes>>
       ELSE \E myEdge \in SortedFirst(edgeWeights) :
                /\ dstPrim' = AddWeightedEdge(dstPrim, myEdge)
                /\ remainingNodes' = remainingNodes \ {myEdge.Edge[2]}
                /\ pc' = "primLoop"
    /\ edgeWeights' = {}
    /\ UNCHANGED <<nlist, succs, preds, cost, start, path, sccs, pathOk,
                   dstKruskal, ds, dominators, i, somethingChanged,
                   postResult>>

\* graph.go 173, 194: no node is outstanding, Prim returns.
PrimReturn ==
    /\ pc = "primLoop"
    /\ Cardinality(remainingNodes) = 0
    /\ pc' = "done"
    /\ UNCHANGED <<nlist, succs, preds, cost, start, path, sccs, pathOk,
                   dstPrim, dstKruskal, remainingNodes, edgeWeights, ds,
                   dominators, i, somethingChanged, postResult>>

\* ds after MakeSet on each node of the list, from its k-th element on.
RECURSIVE MakeSets(_, _)
MakeSets(d, k) ==
    IF k > Len(NodeList) THEN d
    ELSE MakeSets(MakeSet(d, NodeList[k]), k + 1)

\* graph.go 200-221: the destination is emptied and set undirected, every
\* edge gets its weight, the edges are sorted, every node its own set.
KruskalStart ==
    /\ pc = "call"
    /\ dstKruskal' = SetDirected(EmptyGraph, FALSE)
    /\ edgeWeights' = {WeightedEdge(EdgeList[k]) : k \in DOMAIN EdgeList}
    /\ ds' = MakeSets(<<>>, 1)
    /\ pc' = "kruskalLoop"
    /\ UNCHANGED <<nlist, succs, preds, cost, start, path, sccs, pathOk,
                   dstPrim, remainingNodes, dominators, i, somethingChanged,
                   postResult>>

\* KruskalVisit without the test s1 != s2 (graph.go 224).
KruskalVisitAlways(d, dst, edge) ==
    [ds |-> Union(d, Find(d, edge.Edge[1]), Find(d, edge.Edge[2])),
     dst |-> AddWeightedEdge(dst, edge)]

\* One iteration of the loop over the sorted edges.
KruskalVisit(d, dst, edge) ==
    LET s1 == Find(d, edge.Edge[1])
        s2 == Find(d, edge.Edge[2])
    IN IF s1 # s2
       THEN [ds |-> Union(d, s1, s2), dst |-> AddWeightedEdge(dst, edge)]
       ELSE [ds |-> d, dst |-> dst]

\* graph.go 216, 223-233: the next edge in sorted order is visited.  The
\* edges still to be read are kept as a set, and the one read next is any
\* of those the sort may have put first among them.
KruskalEdge ==
    /\ pc = "kruskalLoop"
    /\ \E edge \in SortedFirst(edgeWeights) :
           LET r == KruskalVisit(ds, dstKruskal, edge)
           IN /\ ds' = r.ds
              /\ dstKruskal' = r.dst
              /\ edgeWeights' = edgeWeights \ {edge}
    /\ UNCHANGED <<pc, nlist, succs, preds, cost, start, path, sccs, pathOk,
                   dstPrim, remainingNodes, dominators, i, somethingChanged,
                   postResult>>

\* graph.go 223, 234: every edge has been visited, Kruskal returns.
KruskalReturn ==
    /\ pc = "kruskalLoop"
    /\ edgeWeights = {}
    /\ pc' = "kruskalDone"
    /\ UNCHANGED <<nlist, succs, preds, cost, start, path, sccs, pathOk,
                   dstPrim, dstKruskal, remainingNodes, edgeWeights, ds,
                   dominators, i, somethingChanged, postResult>>

----------------------------------------------------------------------------
\* Dominators and PostDominators (graph.go 241-334).

\* graph.go 242-256 and 291-305: the start node's set is {start}, every
\* other node's set is the set of all nodes.
RECURSIVE InitialSets(_, _, _)
InitialSets(doms, k, s) ==
    IF k > Len(NodeList) THEN doms
    ELSE LET node == NodeList[k]
             set == IF node = s THEN {s} ELSE Range(NodeList)
         IN InitialSets((node :> set) @@ doms, k + 1, s)

\* tmp after intersecting it with the sets of list[k], list[k+1], ...
RECURSIVE IntersectRest(_, _, _, _)
IntersectRest(tmp, list, k, doms) ==
    IF k > Len(list) THEN tmp
    ELSE IntersectRest(tmp \cap doms[list[k]], list, k + 1, doms)

\* graph.go 268-276 and 317-325: the node itself, and what all of the
\* listed neighbours' sets have in common.
NewSet(node, list, doms) ==
    {node} \cup IntersectRest(doms[list[1]], list, 2, doms)

\* DominatorsVisit without the node itself in the new set (graph.go 274).
DominatorsVisitNoSelf(doms, changed, node) ==
    IF node = start THEN [dominators |-> doms, somethingChanged |-> changed]
    ELSE IF Len(Predecessors(node)) = 0
    THEN [dominators |-> doms, somethingChanged |-> changed]
    ELSE LET dom == NewSet(node, Predecessors(node), doms) \ {node}
         IN IF dom # doms[node]
            THEN [dominators |-> [doms EXCEPT ![node] = dom],
                  somethingChanged |-> TRUE]
            ELSE [dominators |-> doms, somethingChanged |-> changed]

\* graph.go 261-281: the body of Dominators' inner loop for one node.
DominatorsVisit(doms, changed, node) ==
    IF node = start THEN [dominators |-> doms, somethingChanged |-> changed]
    ELSE IF Len(Predecessors(node)) = 0
    THEN [dominators |-> doms, somethingChanged |-> changed]
    ELSE LET dom == NewSet(node, Predecessors(node), doms)
         IN IF dom # doms[node]
            THEN [dominators |-> [doms EXCEPT ![node] = dom],
                  somethingChanged |-> TRUE]
            ELSE [dominators |-> doms, somethingChanged |-> changed]

\* PostDominatorsVisit reading Predecessors, as Dominators does.
PostDominatorsVisitPreds(doms, changed, node) ==
    IF node = start THEN [dominators |-> doms, somethingChanged |-> changed]
    ELSE IF Len(Predecessors(node)) = 0
    THEN [dominators |-> doms, somethingChanged |-> changed]
    ELSE LET dom == NewSet(node, Predecessors(node), doms)
         IN IF dom # doms[node]
            THEN [dominators |-> [doms EXCEPT ![node] = dom],
                  somethingChanged |-> TRUE]
            ELSE [dominators |-> doms, somethingChanged |-> changed]

\* PostDominatorsVisit setting the flag whether or not the set changed.
PostDominatorsVisitFlagAlways(doms, changed, node) ==
    IF node = start THEN [dominators |-> doms, somethingChanged |-> changed]
    ELSE IF Len(Successors(node)) = 0
    THEN [dominators |-> doms, somethingChanged |-> changed]
    ELSE [dominators |->
             [doms EXCEPT ![node] = NewSet(node, Successors(node), doms)],
          somethingChanged |-> TRUE]

\* graph.go 310-330: the body of PostDominators' inner loop for one node.
PostDominatorsVisit(doms, changed, node) ==
    IF node = start THEN [dominators |-> doms, somethingChanged |-> changed]
    ELSE IF Len(Successors(node)) = 0
    THEN [dominators |-> doms, somethingChanged |-> changed]
    ELSE LET dom == NewSet(node, Successors(node), doms)
         IN IF dom # doms[node]
            THEN [dominators |-> [doms EXCEPT ![node] = dom],
                  somethingChanged |-> TRUE]
            ELSE [dominators |-> doms, somethingChanged |-> changed]

\* graph.go 291-308: PostDominators(start, graph) fills the map and enters
\* the first pass.
PostDomStart ==
    /\ pc = "call"
    /\ dominators' = InitialSets(<<>>, 1, start)
    /\ somethingChanged' = FALSE
    /\ i' = 1
    /\ pc' = "postLoop"
    /\ UNCHANGED <<nlist, succs, preds, cost, start, path, sccs, pathOk,
                   dstPrim, dstKruskal, remainingNodes, edgeWeights, ds,
                   postResult>>

\* graph.go 309-330: the inner loop visits the next node of the list.
PostDomVisit ==
    /\ pc = "postLoop"
    /\ i <= Len(NodeList)
    /\ LET r == PostDominatorsVisit(dominators, somethingChanged, NodeList[i])
       IN /\ dominators' = r.dominators
          /\ somethingChanged' = r.somethingChanged
    /\ i' = i + 1
    /\ UNCHANGED <<pc, nlist, succs, preds, cost, start, path, sccs, pathOk,
                   dstPrim, dstKruskal, remainingNodes, edgeWeights, ds,
                   postResult>>

\* graph.go 307-308, 333: a pass is over; another one starts if a set
\* changed, else PostDominators returns the map.
PostDomPass ==
    /\ pc = "postLoop"
    /\ i > Len(NodeList)
    /\ IF somethingChanged
       THEN /\ somethingChanged' = FALSE
            /\ i' = 1
            /\ UNCHANGED <<pc, postResult>>
       ELSE /\ postResult' = dominators
            /\ pc' = "postDone"
            /\ UNCHANGED <<i, somethingChanged>>
    /\ UNCHANGED <<nlist, succs, preds, cost, start, path, sccs, pathOk,
                   dstPrim, dstKruskal, remainingNodes, edgeWeights, ds,
                   dominators>>

\* The caller reverses every edge of the graph: the new graph's
\* Predecessors are the old Successors, in the same order, and conversely.
ReverseGraph ==
    /\ pc = "postDone"
    /\ succs' = preds
    /\ preds' = succs
    /\ pc' = "callDom"
    /\ UNCHANGED <<nlist, cost, start, path, sccs, pathOk, dstPrim,
                   dstKruskal, remainingNodes, edgeWeights, ds, dominators,
                   i, somethingChanged, postResult>>

\* graph.go 242-259: Dominators(start, graph) fills the map and enters the
\* first pass.
DomStart ==
    /\ pc = "callDom"
    /\ dominators' = InitialSets(<<>>, 1, start)
    /\ somethingChanged' = FALSE
    /\ i' = 1
    /\ pc' = "domLoop"
    /\ UNCHANGED <<nlist, succs, preds, cost, start, path, sccs, pathOk,
                   dstPrim, dstKruskal, remainingNodes, edgeWeights, ds,
                   postResult>>

\* graph.go 260-281: the inner loop visits the next node of the list.
DomVisit ==
    /\ pc = "domLoop"
    /\ i <= Len(NodeList)
    /\ LET r == DominatorsVisit(dominators, somethingChanged, NodeList[i])
       IN /\ dominators' = r.dominators
          /\ somethingChanged' = r.somethingChanged
    /\ i' = i + 1
    /\ UNCHANGED <<pc, nlist, succs, preds, cost, start, path, sccs, pathOk,
                   dstPrim, dstKruskal, remainingNodes, edgeWeights, ds,
                   postResult>>

\* graph.go 258-259, 284: a pass is over; another one starts if a set
\* changed, else Dominators returns the map.
DomPass ==
    /\ pc = "domLoop"
    /\ i > Len(NodeList)
    /\ IF somethingChanged
       THEN /\ somethingChanged' = FALSE
            /\ i' = 1
            /\ UNCHANGED pc
       ELSE /\ pc' = "done"
            /\ UNCHANGED <<i, somethingChanged>>
    /\ UNCHANGED <<nlist, succs, preds, cost, start, path, sccs, pathOk,
                   dstPrim, dstKruskal, remainingNodes, edgeWeights, ds,
                   dominators, postResult>>

----------------------------------------------------------------------------
\* Values of the variables a specification does not use.

\* A destination graph no algorithm has touched yet.
NoDst == EmptyGraph

TarjanUnused ==
    /\ preds = <<>> /\ cost = <<>> /\ start = NoNode /\ path = <<>>
    /\ pathOk = FALSE /\ dstPrim = NoDst /\ dstKruskal = NoDst
    /\ remainingNodes = {} /\ edgeWeights = {} /\ ds = <<>>
    /\ dominators = <<>> /\ i = 0 /\ somethingChanged = FALSE
    /\ postResult = <<>>

----------------------------------------------------------------------------
\* SpecTarjan: the caller passes a graph, Tarjan returns its components.

InitTarjan ==
    /\ pc = "call"
    /\ \E g \in Graphs, nl \in NodeOrders : succs = g /\ nlist = nl
    /\ sccs = <<>>
    /\ TarjanUnused

CallTarjan ==
    /\ pc = "call"
    /\ sccs' = Tarjan
    /\ pc' = "done"
    /\ UNCHANGED <<nlist, succs, preds, cost, start, path, pathOk, dstPrim,
                   dstKruskal, remainingNodes, edgeWeights, ds, dominators,
                   i, somethingChanged, postResult>>

NextTarjan == CallTarjan

SpecTarjan == InitTarjan /\ [][NextTarjan]_vars

\* The nodes of the returned components, with repetitions counted.
Occurrences(n) ==
    Cardinality({c \in (DOMAIN sccs) \X (1..NumNodes + 1) :
                    c[2] \in DOMAIN sccs[c[1]] /\ sccs[c[1]][c[2]] = n})

\* C1: when Tarjan has returned, every node of the node list appears in
\* exactly one returned component, exactly once, and the components hold no
\* node outside the node list.
TarjanPartition ==
    pc = "done" =>
        /\ \A n \in Range(nlist) : Occurrences(n) = 1
        /\ \A k \in DOMAIN sccs : Range(sccs[k]) \subseteq Range(nlist)

\* C2: when Tarjan has returned, every returned component is a non-empty
\* set of nodes that all reach each other, and no node outside it is
\* mutually reachable with a node inside it.
TarjanComponentsAreSCCs ==
    pc = "done" =>
        \A k \in DOMAIN sccs :
            LET c == Range(sccs[k])
            IN /\ c # {}
               /\ \A a \in c, b \in c : Reaches(a, b)
               /\ \A a \in c, x \in Range(nlist) \ c :
                      ~(Reaches(a, x) /\ Reaches(x, a))

\* C2's case: Tarjan returned a component of several nodes (a cycle).
TarjanCycleReturned ==
    /\ pc = "done"
    /\ \E k \in DOMAIN sccs : Cardinality(Range(sccs[k])) = NumNodes

----------------------------------------------------------------------------
\* SpecPath: the caller passes a node sequence and a graph to IsPath.  The
\* sequence may name NoNode, which is in no graph.

\* The node sequences of the model.
Paths == UNION {[1..k -> Nodes \cup {NoNode}] : k \in 0..MaxPath}

InitPath ==
    /\ pc = "call"
    /\ \E g \in Graphs, p \in Paths : succs = g /\ path = p
    /\ nlist = Ascending(Nodes)
    /\ pathOk = FALSE
    /\ preds = <<>> /\ cost = <<>> /\ start = NoNode /\ sccs = <<>>
    /\ dstPrim = NoDst /\ dstKruskal = NoDst
    /\ remainingNodes = {} /\ edgeWeights = {} /\ ds = <<>>
    /\ dominators = <<>> /\ i = 0 /\ somethingChanged = FALSE
    /\ postResult = <<>>

CallIsPath ==
    /\ pc = "call"
    /\ pathOk' = IsPath(path)
    /\ pc' = "done"
    /\ UNCHANGED <<nlist, succs, preds, cost, start, path, sccs, dstPrim,
                   dstKruskal, remainingNodes, edgeWeights, ds, dominators,
                   i, somethingChanged, postResult>>

NextPath == CallIsPath

SpecPath == InitPath /\ [][NextPath]_vars

\* C6: IsPath returns true exactly when the sequence is empty, or is one
\* node that exists in the graph, or has two or more nodes and every
\* consecutive pair is an edge of the graph.
IsPathCharacterised ==
    pc = "done" =>
        (pathOk <=>
            \/ Len(path) = 0
            \/ Len(path) = 1 /\ path[1] \in Range(nlist)
            \/ /\ Len(path) >= 2
               /\ \A k \in 1..(Len(path) - 1) :
                      <<path[k], path[k + 1]>> \in EdgesOf(succs))

\* C6's case: IsPath accepted a sequence of three nodes along two edges.
IsPathAcceptedWalk ==
    /\ pc = "done"
    /\ Len(path) >= 3
    /\ pathOk

----------------------------------------------------------------------------
\* SpecMST: the caller passes a source graph and a cost function to
\* Kruskal and then to Prim, each with its own destination.

\* Successor lists, in ascending order, of the edge set E over 1..NumNodes.
AdjOf(E) == [n \in Nodes |-> Ascending({m \in Nodes : <<n, m>> \in E})]

UPairs == {p \in SUBSET Nodes : Cardinality(p) = 2}

BothWays(P) == {e \in Nodes \X Nodes : {e[1], e[2]} \in P /\ e[1] # e[2]}

\* Undirected sources of at most MaxEdges edges: every edge is listed in
\* both directions, at the same cost.
UndirectedSources ==
    {[succs |-> AdjOf(BothWays(DOMAIN w)),
      cost |-> [e \in BothWays(DOMAIN w) |-> w[{e[1], e[2]}]]] :
        w \in UNION {[P -> 1..MaxWeight] :
                P \in {Q \in SUBSET UPairs : Cardinality(Q) <= MaxEdges}}}

\* UniformCost, the cost function Prim and Kruskal fall back on.
UniformCost(node1, node2) == 1

\* Directed sources of at most MaxEdges edges, reflexive edges included,
\* at uniform cost.
DirectedSources ==
    {[succs |-> AdjOf(E), cost |-> [e \in E |-> UniformCost(e[1], e[2])]] :
        E \in {F \in SUBSET (Nodes \X Nodes) : Cardinality(F) <= MaxEdges}}

\* The sources over the nodes 1..NumNodes.  Prim and Kruskal compare no
\* node ids and both families are closed under renaming the nodes, so the
\* node list in ascending order stands for every order.
Sources ==
    {[nlist |-> Ascending(Nodes), succs |-> g.succs, cost |-> g.cost] :
        g \in UndirectedSources \cup DirectedSources}

\* The graph with no node.
EmptySource == [nlist |-> <<>>, succs |-> <<>>, cost |-> <<>>]

\* The cycle a-b = 1, b-c = 2, c-d = 3, d-a = 4, with a, b, c, d = 1, 2, 3, 4.
CycleSource ==
    [nlist |-> <<1, 2, 3, 4>>,
     succs |-> <<(<<2, 4>>), (<<1, 3>>), (<<2, 4>>), (<<1, 3>>)>>,
     cost |-> (<<1, 2>> :> 1) @@ (<<2, 1>> :> 1) @@ (<<2, 3>> :> 2) @@
              (<<3, 2>> :> 2) @@ (<<3, 4>> :> 3) @@ (<<4, 3>> :> 3) @@
              (<<4, 1>> :> 4) @@ (<<1, 4>> :> 4)]

InitMST ==
    /\ pc = "call"
    /\ \E g \in Sources \cup {EmptySource, CycleSource} :
           /\ nlist = g.nlist
           /\ succs = g.succs
           /\ cost = g.cost
    /\ dstPrim = NoDst /\ dstKruskal = NoDst
    /\ remainingNodes = {} /\ edgeWeights = {} /\ ds = <<>>
    /\ preds = <<>> /\ start = NoNode /\ path = <<>> /\ sccs = <<>>
    /\ pathOk = FALSE /\ dominators = <<>> /\ i = 0
    /\ somethingChanged = FALSE /\ postResult = <<>>

NextMST ==
    \/ KruskalStart
    \/ KruskalEdge
    \/ KruskalReturn
    \/ PrimStart
    \/ PrimScan
    \/ PrimSelect
    \/ PrimReturn

SpecMST == InitMST /\ [][NextMST]_vars

\* The source graph as an undirected graph: its nodes, its edges as sets
\* of two ends, and each edge's cost.
SourceNodes == Range(nlist)

SourceEdges == EdgesOf(succs)

UndirectedSource ==
    \A e \in SourceEdges :
        /\ <<e[2], e[1]>> \in SourceEdges
        /\ Cost(e[2], e[1]) = Cost(e[1], e[2])

SourceUEdges == {{e[1], e[2]} : e \in {f \in SourceEdges : f[1] # f[2]}}

SourceUCost(ue) ==
    LET e == CHOOSE f \in SourceEdges : {f[1], f[2]} = ue
    IN Cost(e[1], e[2])

\* The nodes joined to the nodes of seen by edges of F.
RECURSIVE ComponentOf(_, _)
ComponentOf(seen, F) ==
    LET next == seen \cup UNION {e \in F : e \cap seen # {}}
    IN IF next = seen THEN seen ELSE ComponentOf(next, F)

ConnectedIn(F, a, b) == b \in ComponentOf({a}, F)

Components(F) == {ComponentOf({a}, F) : a \in SourceNodes}

\* F has no cycle: as many edges as nodes less components, none reflexive.
Acyclic(F) ==
    /\ \A e \in F : Cardinality(e) = 2
    /\ Cardinality(F) = Cardinality(SourceNodes) - Cardinality(Components(F))

\* F joins exactly the pairs of source nodes that the source joins.
SpansSource(F) ==
    \A a \in SourceNodes, b \in SourceNodes :
        ConnectedIn(F, a, b) <=> ConnectedIn(SourceUEdges, a, b)

SpanningForests == {F \in SUBSET SourceUEdges : Acyclic(F) /\ SpansSource(F)}

RECURSIVE SourceWeight(_)
SourceWeight(F) ==
    IF F = {} THEN 0
    ELSE LET e == CHOOSE x \in F : TRUE
         IN SourceUCost(e) + SourceWeight(F \ {e})

\* dst holds a spanning forest of the source at the source's costs.
IsSpanningForest(dst) ==
    /\ dst.edges \in SpanningForests
    /\ \A e \in dst.edges : dst.cost[e] = SourceUCost(e)

\* C4: when Kruskal has returned on an undirected source, the destination's
\* edges are a spanning forest of the source (no cycle, the source's
\* connectivity, the source's costs) and no spanning forest weighs less.
KruskalMinimumForest ==
    (pc = "kruskalDone" /\ UndirectedSource) =>
        /\ IsSpanningForest(dstKruskal)
        /\ \A F \in SpanningForests :
               TotalWeight(dstKruskal) <= SourceWeight(F)

\* C4's case: on the cycle 1, 2, 3, 4 Kruskal returned total weight 6
\* without the edge of weight 4.
KruskalCycleSix ==
    /\ pc = "kruskalDone"
    /\ succs = CycleSource.succs /\ cost = CycleSource.cost
    /\ TotalWeight(dstKruskal) = 6
    /\ {4, 1} \notin dstKruskal.edges

ConnectedSource == Cardinality(Components(SourceUEdges)) <= 1

DistinctWeights ==
    \A e \in SourceUEdges, f \in SourceUEdges :
        e # f => SourceUCost(e) # SourceUCost(f)

\* C5: when Prim and Kruskal have both returned on a connected undirected
\* source with pairwise distinct weights, both destinations hold spanning
\* trees of the source and their total weights are equal.
PrimKruskalSameWeight ==
    (pc = "done" /\ UndirectedSource /\ ConnectedSource /\ DistinctWeights) =>
        /\ IsSpanningForest(dstPrim)
        /\ IsSpanningForest(dstKruskal)
        /\ TotalWeight(dstPrim) = TotalWeight(dstKruskal)

\* C5's case: both returned on a connected source with a cycle.
PrimKruskalBothReturned ==
    /\ pc = "done"
    /\ UndirectedSource /\ ConnectedSource /\ DistinctWeights
    /\ Cardinality(SourceUEdges) >= Cardinality(SourceNodes)
    /\ Cardinality(SourceNodes) >= 3

\* C8: whenever Prim reads edgeWeights[0], the list holds a candidate edge.
PrimNeverReadsEmpty == pc = "primSelect" => edgeWeights # {}

\* C9: when Kruskal has returned, the destination holds exactly the nodes
\* of the source.
KruskalDstSpansNodes == pc = "kruskalDone" => dstKruskal.nodes = SourceNodes

----------------------------------------------------------------------------
\* SpecDom: the caller passes a node and a graph to PostDominators, then
\* the same node and the reversed graph to Dominators.  The node may be
\* NoNode, which is in no graph.  Neither function compares node ids and
\* Graphs is closed under renaming the nodes, so the node list in ascending
\* order, with every start node, stands for every order.

\* The diamond start -> a, start -> b, a -> end, b -> end, with start, a,
\* b, end = 1, 2, 3, 4, as the graph Dominators is given: the caller
\* passes its reverse to PostDominators.
Diamond == <<(<<2, 3>>), (<<4>>), (<<4>>), (<<>>)>>

DomInputs ==
    {[nlist |-> Ascending(Nodes), succs |-> g, start |-> s] :
        g \in Graphs, s \in Nodes \cup {NoNode}}
    \cup {[nlist |-> <<1, 2, 3, 4>>, succs |-> Transpose(Diamond), start |-> 1]}

InitDom ==
    /\ pc = "call"
    /\ \E in \in DomInputs :
           /\ nlist = in.nlist
           /\ succs = in.succs
           /\ start = in.start
    /\ preds = Transpose(succs)
    /\ dominators = <<>> /\ i = 0 /\ somethingChanged = FALSE
    /\ postResult = <<>>
    /\ cost = <<>> /\ path = <<>> /\ sccs = <<>> /\ pathOk = FALSE
    /\ dstPrim = NoDst /\ dstKruskal = NoDst
    /\ remainingNodes = {} /\ edgeWeights = {} /\ ds = <<>>

NextDom ==
    \/ PostDomStart
    \/ PostDomVisit
    \/ PostDomPass
    \/ ReverseGraph
    \/ DomStart
    \/ DomVisit
    \/ DomPass

SpecDom == InitDom /\ [][NextDom]_vars

\* Each call runs to completion: no step that can be taken waits for ever.
FairSpecDom == SpecDom /\ WF_vars(NextDom)

\* The nodes some path from start reaches without entering node a.
ReachedAvoiding(a) ==
    IF a = start THEN {}
    ELSE ReachSet({start}, [n \in DOMAIN succs |->
             IF n = a THEN <<>>
             ELSE SelectSeq(succs[n], LAMBDA m : m # a)])

\* The nodes every path from start to n passes through.
TrueDominators(n) == {a \in Range(nlist) : n \notin ReachedAvoiding(a)}

\* C3: when Dominators has returned for a start node of the graph, the set
\* of every node reachable from start is exactly the set of the nodes that
\* every path from start to it passes through.
DominatorsExact ==
    (pc = "done" /\ start \in Range(nlist)) =>
        \A n \in ReachSet({start}, succs) :
            dominators[n] = TrueDominators(n)

\* C3's case: Dominators returned for the diamond with {start, end} as
\* the set of end.
DominatorsDiamondReturned ==
    /\ pc = "done"
    /\ succs = Diamond
    /\ start = 1
    /\ dominators[4] = {1, 4}
    /\ dominators[1] = {1}

\* C7: the map PostDominators returned for the graph is the map Dominators
\* returns for the same node and the reversed graph.
PostDominatorsIsReversedDominators ==
    pc = "done" => dominators = postResult

\* C7's case: both returned, with a set made smaller than the full set.
PostDominatorsShrunkReturned ==
    /\ pc = "done"
    /\ \E n \in Range(nlist) :
           n # start /\ postResult[n] # Range(nlist)

InLoop == pc \in {"postLoop", "domLoop"}

\* The neighbours the running call reads for node n.
LoopNeighbours(n) == IF pc = "postLoop" THEN Successors(n) ELSE Predecessors(n)

\* C10: both fixed-point loops terminate; from the full node set of every
\* node but start, a step of a loop replaces a set only by a subset of it;
\* and a node other than start with no predecessor (no successor, for
\* PostDominators) keeps the full node set.
DominatorsShrinkAndTerminate ==
    /\ <>(pc = "done")
    /\ [][/\ (~InLoop /\ InLoop') =>
                \A n \in Range(nlist) \ {start} :
                    dominators'[n] = Range(nlist)
          /\ InLoop =>
                \A n \in Range(nlist) : dominators'[n] \subseteq dominators[n]
         ]_vars
    /\ [](InLoop =>
            \A n \in Range(nlist) \ {start} :
                Len(LoopNeighbours(n)) = 0 => dominators[n] = Range(nlist))

\* C10's case: both loops have returned, a set has shrunk, and a node
\* other than start with no predecessor has kept the full node set.
DominatorsShrunkAndKept ==
    /\ pc = "done"
    /\ \E n \in Range(nlist) :
           n # start /\ dominators[n] # Range(nlist)
    /\ \E m \in Range(nlist) :
           /\ m # start
           /\ Len(Predecessors(m)) = 0
           /\ dominators[m] = Range(nlist)

====
